---- MODULE Spec2Model ----
(***************************************************************************)
(* The token lifecycle and the event submission of lanner's lib/calendar   *)
(* (getAuthToken, clearTokenCache, createEventDirect, createEvent) and the *)
(* background message handler, as a state machine.  One step of the model  *)
(* is the completion of one awaited call (storage, identity provider,      *)
(* validation probe, POST, message) together with the synchronous code     *)
(* that follows it up to the next await.                                   *)
(***************************************************************************)
EXTENDS Integers, Sequences, FiniteSets

\* ------------------------------------------------------------------ bounds
\* Tokens the identity provider can issue in one run.
MaxTokens == 3
\* Clock ticks in one run.
MaxTicks == 3

\* --------------------------------------------------------------- constants
\* const LANNER_PREFIX: a notebook emoji and a space, written here in ASCII.
LANNER_PREFIX == "[N] "
TOKEN_CACHE_KEY == "lanner_auth_token"
USER_CONFIG_KEY == "user_config"
\* const MAX_AGE = 50 * 60 * 1000
MAX_AGE == 50 * 60 * 1000
\* The clock's granularity in the model: 25 minutes, so that ages of 25
\* (fresh), 50 (the boundary) and 75 minutes all occur.
TickMs == 25 * 60 * 1000

Procs == {"A", "B"}
Tokens == 1 .. MaxTokens
\* The empty / undefined token.
NoToken == 0
Undefined == "undefined"
NoEntry == [token |-> NoToken, timestamp |-> -1]
NoErr == [kind |-> "none", msg |-> ""]
Pending == [st |-> "pending", tok |-> NoToken, data |-> Undefined, err |-> NoErr]
NoResponse == [status |-> 0, body |-> "none", id |-> Undefined]
NoReply == [sent |-> 0, data |-> Undefined, token |-> NoToken, error |-> Undefined]
Summaries == {"Dentist"}
\* The event's other fields, taken as one value.
Locations == {"Clinic"}

VARIABLES
    storage,    \* chrome.storage.local: key -> value
    now,        \* Date.now()
    idCached,   \* the token chrome.identity holds in its own cache
    nextTok,    \* the next token the identity provider issues
    lastProbe,  \* per token, the last validation probe's result, and whether one ever passed
    proc,       \* per caller, the invocation in progress
    overlayStatus  \* the overlay's `status` (setStatus)

vars == <<storage, now, idCached, nextTok, lastProbe, proc, overlayStatus>>

\* ------------------------------------------------------- JavaScript values
StringErr(m) == [kind |-> "string", msg |-> m]
ErrorObj(m) == [kind |-> "Error", msg |-> m]
Resolved(t, d) == [st |-> "resolved", tok |-> t, data |-> d, err |-> NoErr]
Rejected(e) == [st |-> "rejected", tok |-> NoToken, data |-> Undefined, err |-> e]

\* e.message: an Error carries one, a string primitive has none.
MessageOf(e) == IF e.kind = "Error" THEN e.msg ELSE Undefined
\* e.toString()
ToString(e) == IF e.kind = "Error" THEN "Error: " \o e.msg ELSE e.msg
Truthy(s) == s # Undefined /\ s # ""
ResponseOk(status) == status \in 200 .. 299

\* ------------------------------------------------------------- environment
\* What chrome.identity.getAuthToken can call back with.
ProviderOutcomes ==
    {[kind |-> "cached"] : x \in {y \in {idCached} : y # NoToken}}
    \cup {[kind |-> "fresh"] : x \in {y \in {nextTok} : y \in Tokens}}
    \cup {[kind |-> "lastError"], [kind |-> "empty"]}

ProbeOutcomes == {"ok", "notok", "neterr"}

\* What the calendar endpoint can answer a POST with: a success carries the
\* created resource, a failure a structured error (with or without a message)
\* or a body that is no JSON; or the request itself fails.
PostOutcomes ==
    {[status |-> s, body |-> b, id |-> i] :
        s \in {200}, b \in {"data"}, i \in {"abc", "xyz"}}
    \cup {[status |-> s, body |-> b, id |-> Undefined] :
        s \in {401, 403, 500}, b \in {"error_msg", "error_nomsg", "garbage"}}
    \cup {[status |-> 0, body |-> "neterr", id |-> Undefined]}

\* ---------------------------------------------------------------- callers
IdleProc ==
    [op |-> "idle", pc |-> "idle", hasIdentity |-> TRUE, ret |-> "caller",
     interactive |-> TRUE, cachedData |-> NoEntry, nowL |-> -1,
     token |-> NoToken, isValid |-> FALSE, probes |-> <<>>,
     gaOut |-> Pending, gaTrace |-> <<>>,
     summary |-> "", location |-> "", ceToken |-> NoToken, response |-> NoResponse,
     posts |-> <<>>, ceTrace |-> <<>>, ceOut |-> Pending, reply |-> NoReply,
     result |-> Pending, config |-> <<>>, current |-> <<>>]

Init ==
    /\ storage = [k \in {TOKEN_CACHE_KEY, USER_CONFIG_KEY} |-> NoEntry]
    /\ now = 0
    /\ idCached = NoToken
    /\ nextTok = 1
    /\ lastProbe = [t \in Tokens |-> [last |-> "none", everOk |-> FALSE]]
    /\ proc = [p \in Procs |-> IdleProc]
    /\ overlayStatus = "idle"

AllIdle == \A q \in Procs : proc[q].op = "idle"

\* The locals of a new getAuthToken(i) invocation that returns to `ret`.
EnterGetAuthToken(r, i, ret) ==
    [r EXCEPT !.pc = "ga_check", !.interactive = i, !.ret = ret,
              !.cachedData = NoEntry, !.nowL = -1, !.token = NoToken,
              !.isValid = FALSE, !.probes = <<>>, !.gaOut = Pending,
              !.gaTrace = <<>>]

\* Mutant of GaReturn: the retry keeps the token of the first request.
GaReturnKeepsToken(r, out) ==
    LET s == [r EXCEPT !.gaOut = out] IN
    CASE r.ret = "caller" -> [s EXCEPT !.pc = "done", !.result = out]
      [] r.ret = "handler" -> [s EXCEPT !.pc = "ga_respond"]
      [] r.ret = "first" ->
            IF out.st = "resolved"
            THEN [s EXCEPT !.pc = "ce_post1", !.ceToken = out.tok]
            ELSE [s EXCEPT !.pc = "ce_respond", !.ceOut = out]
      [] r.ret = "retry" ->
            IF out.st = "resolved"
            THEN [s EXCEPT !.pc = "ce_post2"]
            ELSE [s EXCEPT !.pc = "ce_respond", !.ceOut = out]

\* Mutant of GaReturn: a failed re-fetch is ignored and the retry is sent with
\* the token at hand.
GaReturnRetryPostsAnyway(r, out) ==
    LET s == [r EXCEPT !.gaOut = out] IN
    CASE r.ret = "caller" -> [s EXCEPT !.pc = "done", !.result = out]
      [] r.ret = "handler" -> [s EXCEPT !.pc = "ga_respond"]
      [] r.ret = "first" ->
            IF out.st = "resolved"
            THEN [s EXCEPT !.pc = "ce_post1", !.ceToken = out.tok]
            ELSE [s EXCEPT !.pc = "ce_respond", !.ceOut = out]
      [] r.ret = "retry" ->
            IF out.st = "resolved"
            THEN [s EXCEPT !.pc = "ce_post2", !.ceToken = out.tok]
            ELSE [s EXCEPT !.pc = "ce_post2"]

\* Mutant of NeedsRetry: a 403 is taken for an expired token as well.
NeedsRetryForbidden(status) == status \in {401, 403}

\* getAuthToken settles with `out`: the continuation of whoever awaits it.
GaReturn(r, out) ==
    LET s == [r EXCEPT !.gaOut = out] IN
    CASE r.ret = "caller" -> [s EXCEPT !.pc = "done", !.result = out]
      [] r.ret = "handler" -> [s EXCEPT !.pc = "ga_respond"]
      [] r.ret = "first" ->
            IF out.st = "resolved"
            THEN [s EXCEPT !.pc = "ce_post1", !.ceToken = out.tok]
            ELSE [s EXCEPT !.pc = "ce_respond", !.ceOut = out]
      [] r.ret = "retry" ->
            IF out.st = "resolved"
            THEN [s EXCEPT !.pc = "ce_post2", !.ceToken = out.tok]
            ELSE [s EXCEPT !.pc = "ce_respond", !.ceOut = out]

\* A caller invokes getAuthToken(i) in a context with or without chrome.identity.
CallGetAuthToken(p, i, h) ==
    /\ proc[p].op = "idle"
    /\ proc' = [proc EXCEPT ![p] =
            EnterGetAuthToken([IdleProc EXCEPT !.op = "getAuthToken",
                                               !.hasIdentity = h], i, "caller")]
    /\ UNCHANGED <<storage, now, idCached, nextTok, lastProbe, overlayStatus>>

\* Mutants of the freshness test: the comparison turned around, and the
\* boundary taken as fresh.
IsFreshInverted(cd, n) ==
    /\ cd # NoEntry
    /\ cd.token # NoToken
    /\ n - cd.timestamp > MAX_AGE

IsFreshLeq(cd, n) ==
    /\ cd # NoEntry
    /\ cd.token # NoToken
    /\ n - cd.timestamp <= MAX_AGE

\* cachedData && cachedData.token && (now - cachedData.timestamp < MAX_AGE)
IsFresh(cd, n) ==
    /\ cd # NoEntry
    /\ cd.token # NoToken
    /\ n - cd.timestamp < MAX_AGE

\* Mutant of CheckCache: a cache hit renews the entry's timestamp.
CheckCacheSliding(p) ==
    LET r == proc[p]
        cd == storage[TOKEN_CACHE_KEY]
        s == [r EXCEPT !.cachedData = cd, !.nowL = now,
                       !.gaTrace = Append(@, "storage.get")]
    IN  /\ r.pc = "ga_check"
        /\ proc' = [proc EXCEPT ![p] =
                IF IsFresh(cd, now) THEN GaReturn(s, Resolved(cd.token, Undefined))
                ELSE IF r.hasIdentity THEN [s EXCEPT !.pc = "ga_getToken1"]
                ELSE [s EXCEPT !.pc = "ga_sendMessage"]]
        /\ storage' = IF IsFresh(cd, now)
                       THEN [storage EXCEPT ![TOKEN_CACHE_KEY].timestamp = now]
                       ELSE storage
        /\ UNCHANGED <<now, idCached, nextTok, lastProbe, overlayStatus>>

\* 1. Check Cache
CheckCache(p) ==
    LET r == proc[p]
        cd == storage[TOKEN_CACHE_KEY]
        s == [r EXCEPT !.cachedData = cd, !.nowL = now,
                       !.gaTrace = Append(@, "storage.get")]
    IN  /\ r.pc = "ga_check"
        /\ proc' = [proc EXCEPT ![p] =
                IF IsFresh(cd, now) THEN GaReturn(s, Resolved(cd.token, Undefined))
                ELSE IF r.hasIdentity THEN [s EXCEPT !.pc = "ga_getToken1"]
                ELSE [s EXCEPT !.pc = "ga_sendMessage"]]
        /\ UNCHANGED <<storage, now, idCached, nextTok, lastProbe, overlayStatus>>

\* The mode of the identity-provider call: getToken(interactive), then getToken(true).
AcquireMode(r) == IF r.pc = "ga_getToken1" THEN r.interactive ELSE TRUE

AcquireEvent(i) ==
    IF i THEN "identity.getAuthToken(true)" ELSE "identity.getAuthToken(false)"

\* Mutant of GetToken: a failed acquisition also removes the cache entry.
GetTokenClearsOnFailure(p) ==
    LET r == proc[p]
        s == [r EXCEPT !.gaTrace = Append(@, AcquireEvent(AcquireMode(r)))]
        next == IF r.pc = "ga_getToken1" THEN "ga_validate1" ELSE "ga_validate2"
    IN  /\ r.pc \in {"ga_getToken1", "ga_getToken2"}
        /\ \E o \in ProviderOutcomes :
            CASE o.kind = "cached" ->
                    /\ proc' = [proc EXCEPT ![p] =
                            [s EXCEPT !.token = idCached, !.pc = next]]
                    /\ UNCHANGED <<idCached, nextTok, storage>>
              [] o.kind = "fresh" ->
                    /\ proc' = [proc EXCEPT ![p] =
                            [s EXCEPT !.token = nextTok, !.pc = next]]
                    /\ idCached' = nextTok
                    /\ nextTok' = nextTok + 1
                    /\ UNCHANGED storage
              [] o.kind = "lastError" ->
                    /\ proc' = [proc EXCEPT ![p] =
                            GaReturn(s, Rejected(StringErr("The user did not approve access.")))]
                    /\ storage' = [storage EXCEPT ![TOKEN_CACHE_KEY] = NoEntry]
                    /\ UNCHANGED <<idCached, nextTok>>
              [] o.kind = "empty" ->
                    /\ proc' = [proc EXCEPT ![p] =
                            GaReturn(s, Rejected(StringErr("No token received")))]
                    /\ storage' = [storage EXCEPT ![TOKEN_CACHE_KEY] = NoEntry]
                    /\ UNCHANGED <<idCached, nextTok>>
        /\ UNCHANGED <<now, lastProbe, overlayStatus>>

\* getToken: chrome.identity.getAuthToken({interactive}, callback)
GetToken(p) ==
    LET r == proc[p]
        s == [r EXCEPT !.gaTrace = Append(@, AcquireEvent(AcquireMode(r)))]
        next == IF r.pc = "ga_getToken1" THEN "ga_validate1" ELSE "ga_validate2"
    IN  /\ r.pc \in {"ga_getToken1", "ga_getToken2"}
        /\ \E o \in ProviderOutcomes :
            CASE o.kind = "cached" ->
                    /\ proc' = [proc EXCEPT ![p] =
                            [s EXCEPT !.token = idCached, !.pc = next]]
                    /\ UNCHANGED <<idCached, nextTok>>
              [] o.kind = "fresh" ->
                    /\ proc' = [proc EXCEPT ![p] =
                            [s EXCEPT !.token = nextTok, !.pc = next]]
                    /\ idCached' = nextTok
                    /\ nextTok' = nextTok + 1
              [] o.kind = "lastError" ->
                    /\ proc' = [proc EXCEPT ![p] =
                            GaReturn(s, Rejected(StringErr("The user did not approve access.")))]
                    /\ UNCHANGED <<idCached, nextTok>>
              [] o.kind = "empty" ->
                    /\ proc' = [proc EXCEPT ![p] =
                            GaReturn(s, Rejected(StringErr("No token received")))]
                    /\ UNCHANGED <<idCached, nextTok>>
        /\ UNCHANGED <<storage, now, lastProbe, overlayStatus>>

\* Mutant of ValidateResult: only an answer that is not ok counts as invalid.
ValidateResultUnlessRefused(o) == o # "notok"

\* validateToken: response.ok, and false when the request itself fails.
ValidateResult(o) == o = "ok"

\* Mutants of AfterValidate: an invalid token is discarded and re-acquired
\* every time, and the second validation's result is not looked at.
AfterValidateLoop(r, valid) ==
    IF valid THEN [r EXCEPT !.pc = "ga_store"]
    ELSE [r EXCEPT !.pc = "ga_remove"]

AfterValidateTrusting(r, valid) ==
    IF valid THEN [r EXCEPT !.pc = "ga_store"]
    ELSE IF r.pc = "ga_validate1" THEN [r EXCEPT !.pc = "ga_remove"]
    ELSE [r EXCEPT !.pc = "ga_store"]

\* The code after `isValid = await validateToken(token)`, first and second time.
AfterValidate(r, valid) ==
    IF valid THEN [r EXCEPT !.pc = "ga_store"]
    ELSE IF r.pc = "ga_validate1" THEN [r EXCEPT !.pc = "ga_remove"]
    ELSE GaReturn(r, Rejected(ErrorObj("Token still invalid after refresh")))

ValidateToken(p) ==
    LET r == proc[p] IN
    /\ r.pc \in {"ga_validate1", "ga_validate2"}
    /\ \E o \in ProbeOutcomes :
        LET valid == ValidateResult(o)
            s == [r EXCEPT !.isValid = valid,
                           !.probes = Append(@, o),
                           !.gaTrace = Append(@, "validateToken")]
        IN  /\ proc' = [proc EXCEPT ![p] = AfterValidate(s, valid)]
            /\ lastProbe' = [lastProbe EXCEPT ![r.token] =
                                [last |-> IF valid THEN "ok" ELSE "fail",
                                 everOk |-> @.everOk \/ valid]]
    /\ UNCHANGED <<storage, now, idCached, nextTok, overlayStatus>>

\* chrome.identity.removeCachedAuthToken({ token })
Discard(cached, t) == IF cached = t THEN NoToken ELSE cached

\* Mutant of AfterRemove: the retry does not look at `interactive`.
AfterRemoveAlwaysRetry(r) == [r EXCEPT !.pc = "ga_getToken2"]

\* The code after the discard: retry interactively, or throw.
AfterRemove(r) ==
    IF r.interactive THEN [r EXCEPT !.pc = "ga_getToken2"]
    ELSE GaReturn(r, Rejected(ErrorObj("Token invalid")))

RemoveCachedAuthToken(p) ==
    LET r == proc[p]
        s == [r EXCEPT !.gaTrace = Append(@, "removeCachedAuthToken")]
    IN  /\ r.pc = "ga_remove"
        /\ idCached' = Discard(idCached, r.token)
        /\ proc' = [proc EXCEPT ![p] = AfterRemove(s)]
        /\ UNCHANGED <<storage, now, nextTok, lastProbe, overlayStatus>>

\* Mutant of StoreToken: the entry is written only when the cache still holds
\* what this invocation read.
StoreTokenIfUnchanged(p) ==
    LET r == proc[p]
        s == [r EXCEPT !.gaTrace = Append(@, "storage.set")]
    IN  /\ r.pc = "ga_store"
        /\ storage' = IF storage[TOKEN_CACHE_KEY] = r.cachedData
                       THEN [storage EXCEPT ![TOKEN_CACHE_KEY] =
                                [token |-> r.token, timestamp |-> now]]
                       ELSE storage
        /\ proc' = [proc EXCEPT ![p] = GaReturn(s, Resolved(r.token, Undefined))]
        /\ UNCHANGED <<now, idCached, nextTok, lastProbe, overlayStatus>>

\* Cache the new validated token
StoreToken(p) ==
    LET r == proc[p]
        s == [r EXCEPT !.gaTrace = Append(@, "storage.set")]
    IN  /\ r.pc = "ga_store"
        /\ storage' = [storage EXCEPT ![TOKEN_CACHE_KEY] =
                            [token |-> r.token, timestamp |-> now]]
        /\ proc' = [proc EXCEPT ![p] = GaReturn(s, Resolved(r.token, Undefined))]
        /\ UNCHANGED <<now, idCached, nextTok, lastProbe, overlayStatus>>

\* ------------------------------------------ delegation (GET_AUTH_TOKEN)
\* Fallback: chrome.runtime.sendMessage({type: "GET_AUTH_TOKEN", ...}); either the
\* channel fails (chrome.runtime.lastError) or the background listener runs
\* getAuthToken(request.payload.interactive) in its own, privileged context.
SendMessageGetAuthToken(p) ==
    LET r == proc[p]
        s == [r EXCEPT !.gaTrace = Append(@, "sendMessage")]
    IN  /\ r.pc = "ga_sendMessage"
        /\ \E delivered \in BOOLEAN :
            proc' = [proc EXCEPT ![p] =
                IF delivered
                THEN [s EXCEPT !.pc = "ga_check", !.ret = "handler",
                               !.hasIdentity = TRUE]
                ELSE GaReturn(s, Rejected(StringErr("Could not establish connection.")))]
        /\ UNCHANGED <<storage, now, idCached, nextTok, lastProbe, overlayStatus>>

\* .then((token) => sendResponse({ token }))
\* .catch((error) => sendResponse({ error: error.toString() }))
GetAuthTokenResponse(out) ==
    IF out.st = "resolved"
    THEN [sent |-> 1, data |-> Undefined, token |-> out.tok, error |-> Undefined]
    ELSE [sent |-> 1, data |-> Undefined, token |-> NoToken,
          error |-> ToString(out.err)]

GaRespond(p) ==
    LET r == proc[p] IN
    /\ r.pc = "ga_respond"
    /\ proc' = [proc EXCEPT ![p] =
            [r EXCEPT !.pc = "ga_callback",
                      !.reply = [GetAuthTokenResponse(r.gaOut) EXCEPT
                                    !.sent = r.reply.sent + 1]]]
    /\ UNCHANGED <<storage, now, idCached, nextTok, lastProbe, overlayStatus>>

\* Mutant of GetAuthTokenCallback: a reply without an error resolves, token or
\* no token.
GetAuthTokenCallbackAnyToken(response) ==
    IF Truthy(response.error) THEN Rejected(StringErr(response.error))
    ELSE Resolved(response.token, Undefined)

\* The sendMessage callback of the fallback branch.
GetAuthTokenCallback(response) ==
    IF Truthy(response.error) THEN Rejected(StringErr(response.error))
    ELSE IF response.token # NoToken THEN Resolved(response.token, Undefined)
    ELSE Rejected(StringErr("Failed to retrieve token from background"))

GaCallback(p) ==
    LET r == proc[p] IN
    /\ r.pc = "ga_callback"
    /\ proc' = [proc EXCEPT ![p] =
            [r EXCEPT !.pc = "done", !.result = GetAuthTokenCallback(r.reply)]]
    /\ UNCHANGED <<storage, now, idCached, nextTok, lastProbe, overlayStatus>>

\* ------------------------------------------------------- event submission
\* A caller invokes createEvent(event).
CallCreateEvent(p, summary) ==
    /\ proc[p].op = "idle"
    /\ proc' = [proc EXCEPT ![p] =
            [IdleProc EXCEPT !.op = "createEvent", !.pc = "ce_sendMessage",
                             !.summary = summary,
                             !.location = CHOOSE l \in Locations : TRUE]]
    /\ UNCHANGED <<storage, now, idCached, nextTok, lastProbe, overlayStatus>>

\* chrome.runtime.sendMessage({type: "CREATE_EVENT", payload: event}); the
\* background listener calls createEventDirect(request.payload), which starts
\* with `let token = await getAuthToken(true)`.
SendMessageCreateEvent(p) ==
    LET r == proc[p] IN
    /\ r.pc = "ce_sendMessage"
    /\ \E delivered \in BOOLEAN :
        proc' = [proc EXCEPT ![p] =
            IF delivered
            THEN EnterGetAuthToken([r EXCEPT !.hasIdentity = TRUE,
                                             !.ceTrace = <<"getAuthToken">>],
                                   TRUE, "first")
            ELSE [r EXCEPT !.pc = "done",
                           !.result = Rejected([kind |-> "lastError",
                                                msg |-> "Could not establish connection."])]]
    /\ UNCHANGED <<storage, now, idCached, nextTok, lastProbe, overlayStatus>>

\* Mutant of ModifiedSummary: the marker is appended, not prefixed.
ModifiedSummarySuffix(summary) == summary \o LANNER_PREFIX

\* modifiedEvent = {...event, summary: LANNER_PREFIX + event.summary}
ModifiedSummary(summary) == LANNER_PREFIX \o summary

\* Mutant of NeedsRetry: any failed response is retried.
NeedsRetryAnyFailure(status) == ~ResponseOk(status)

\* if (response.status === 401)
NeedsRetry(status) == status = 401

\* response.json(): the parsed body, or a SyntaxError.
\* throw new Error(error.error?.message || "Failed to create event")
ProviderMessage(o) == IF o.body = "error_msg" THEN "Forbidden" ELSE Undefined

Settle(o) ==
    IF o.body = "garbage" THEN Rejected(ErrorObj("Unexpected token in JSON"))
    ELSE IF ~ResponseOk(o.status)
    THEN Rejected(ErrorObj(IF Truthy(ProviderMessage(o)) THEN ProviderMessage(o)
                           ELSE "Failed to create event"))
    ELSE Resolved(NoToken, o.id)

\* Mutant of AfterPost: a 401 is retried every time, not only the first.
AfterPostRetryAgain(r, o) ==
    IF o.body = "neterr"
    THEN [r EXCEPT !.pc = "ce_respond",
                   !.ceOut = Rejected(ErrorObj("Failed to fetch"))]
    ELSE IF NeedsRetry(o.status)
    THEN [r EXCEPT !.pc = "ce_clear", !.response = o]
    ELSE [r EXCEPT !.pc = "ce_respond", !.response = o, !.ceOut = Settle(o)]

\* Mutant of AfterPost: after a second 401 the invocation waits on a promise
\* that nothing settles.
AfterPostNeverSettles(r, o) ==
    IF o.body = "neterr"
    THEN [r EXCEPT !.pc = "ce_respond",
                   !.ceOut = Rejected(ErrorObj("Failed to fetch"))]
    ELSE IF r.pc = "ce_post1" /\ NeedsRetry(o.status)
    THEN [r EXCEPT !.pc = "ce_clear", !.response = o]
    ELSE IF NeedsRetry(o.status)
    THEN [r EXCEPT !.pc = "ce_wait", !.response = o]
    ELSE [r EXCEPT !.pc = "ce_respond", !.response = o, !.ceOut = Settle(o)]

\* The code after `response = await makeRequest(token)`.
AfterPost(r, o) ==
    IF o.body = "neterr"
    THEN [r EXCEPT !.pc = "ce_respond",
                   !.ceOut = Rejected(ErrorObj("Failed to fetch"))]
    ELSE IF r.pc = "ce_post1" /\ NeedsRetry(o.status)
    THEN [r EXCEPT !.pc = "ce_clear", !.response = o]
    ELSE [r EXCEPT !.pc = "ce_respond", !.response = o, !.ceOut = Settle(o)]

\* makeRequest(token): the POST, first or retried.
MakeRequest(p) ==
    LET r == proc[p] IN
    /\ r.pc \in {"ce_post1", "ce_post2"}
    /\ \E o \in PostOutcomes :
        LET s == [r EXCEPT !.ceTrace = Append(@, "POST"),
                           !.posts = Append(@, [tok |-> r.ceToken,
                                                summary |-> ModifiedSummary(r.summary),
                                                location |-> r.location,
                                                status |-> o.status,
                                                body |-> o.body, id |-> o.id])]
        IN proc' = [proc EXCEPT ![p] = AfterPost(s, o)]
    /\ UNCHANGED <<storage, now, idCached, nextTok, lastProbe, overlayStatus>>

\* Mutant of RemoveKey: the key is left in storage.
RemoveKeyNoop(st) == st

\* Mutants of RemoveKey: the wrong key is removed, and the whole storage area
\* is cleared.
RemoveWrongKey(st) == [st EXCEPT ![USER_CONFIG_KEY] = NoEntry]

RemoveKeyClearsAll(st) == [k \in DOMAIN st |-> NoEntry]

\* clearTokenCache: chrome.storage.local.remove(TOKEN_CACHE_KEY)
RemoveKey(st) == [st EXCEPT ![TOKEN_CACHE_KEY] = NoEntry]

\* Mutant of ClearTokenCache: the provider's cached token is dropped as well.
ClearTokenCacheAlsoDiscards(p) ==
    LET r == proc[p] IN
    /\ r.pc = "ce_clear"
    /\ storage' = [storage EXCEPT ![TOKEN_CACHE_KEY] = NoEntry]
    /\ idCached' = NoToken
    /\ proc' = [proc EXCEPT ![p] =
            [r EXCEPT !.pc = "ce_remove",
                      !.ceTrace = Append(@, "clearTokenCache")]]
    /\ UNCHANGED <<now, nextTok, lastProbe, overlayStatus>>

\* Mutant of ClearTokenCache: the removal is started but not awaited.
ClearTokenCacheNotAwaited(p) ==
    LET r == proc[p] IN
    /\ r.pc = "ce_clear"
    /\ proc' = [proc EXCEPT ![p] =
            [r EXCEPT !.pc = "ce_remove",
                      !.ceTrace = Append(@, "clearTokenCache")]]
    /\ UNCHANGED <<storage, now, idCached, nextTok, lastProbe, overlayStatus>>

\* await clearTokenCache(), inside createEventDirect.
ClearTokenCache(p) ==
    LET r == proc[p] IN
    /\ r.pc = "ce_clear"
    /\ storage' = RemoveKey(storage)
    /\ proc' = [proc EXCEPT ![p] =
            [r EXCEPT !.pc = "ce_remove",
                      !.ceTrace = Append(@, "clearTokenCache")]]
    /\ UNCHANGED <<now, idCached, nextTok, lastProbe, overlayStatus>>

\* chrome.identity.removeCachedAuthToken({ token }), then
\* token = await getAuthToken(true)
CeRemoveCachedAuthToken(p) ==
    LET r == proc[p] IN
    /\ r.pc = "ce_remove"
    /\ idCached' = Discard(idCached, r.ceToken)
    /\ proc' = [proc EXCEPT ![p] =
            EnterGetAuthToken(
                [r EXCEPT !.ceTrace = @ \o <<"removeCachedAuthToken", "getAuthToken">>],
                TRUE, "retry")]
    /\ UNCHANGED <<storage, now, nextTok, lastProbe, overlayStatus>>

\* .then((data) => sendResponse({ data }))
\* .catch((error) => sendResponse({ error: error.message }))
CreateEventResponse(out) ==
    IF out.st = "resolved"
    THEN [sent |-> 1, data |-> out.data, token |-> NoToken, error |-> Undefined]
    ELSE [sent |-> 1, data |-> Undefined, token |-> NoToken,
          error |-> MessageOf(out.err)]

CeRespond(p) ==
    LET r == proc[p] IN
    /\ r.pc = "ce_respond"
    /\ proc' = [proc EXCEPT ![p] =
            [r EXCEPT !.pc = "ce_callback",
                      !.reply = [CreateEventResponse(r.ceOut) EXCEPT
                                    !.sent = r.reply.sent + 1]]]
    /\ UNCHANGED <<storage, now, idCached, nextTok, lastProbe, overlayStatus>>

\* Mutant of CreateEventCallback: the promise resolves with nothing.
CreateEventCallbackNoData(response) ==
    IF Truthy(response.error) THEN Rejected(ErrorObj(response.error))
    ELSE Resolved(NoToken, Undefined)

\* The sendMessage callback of createEvent.
CreateEventCallback(response) ==
    IF Truthy(response.error) THEN Rejected(ErrorObj(response.error))
    ELSE Resolved(NoToken, response.data)

CeCallback(p) ==
    LET r == proc[p] IN
    /\ r.pc = "ce_callback"
    /\ proc' = [proc EXCEPT ![p] =
            [r EXCEPT !.pc = "done", !.result = CreateEventCallback(r.reply)]]
    /\ UNCHANGED <<storage, now, idCached, nextTok, lastProbe, overlayStatus>>

Tick ==
    /\ now < MaxTicks * TickMs
    /\ now' = now + TickMs
    /\ UNCHANGED <<storage, idCached, nextTok, lastProbe, proc, overlayStatus>>

\* The caller has its result and is ready for the next call.
Return(p) ==
    /\ proc[p].pc = "done"
    /\ proc' = [proc EXCEPT ![p] = IdleProc]
    /\ UNCHANGED <<storage, now, idCached, nextTok, lastProbe, overlayStatus>>

Next ==
    \/ \E p \in Procs, i \in BOOLEAN, h \in BOOLEAN :
            AllIdle /\ CallGetAuthToken(p, i, h)
    \/ \E p \in Procs, e \in Summaries : AllIdle /\ CallCreateEvent(p, e)
    \/ \E p \in Procs : CheckCache(p)
    \/ \E p \in Procs : GetToken(p)
    \/ \E p \in Procs : ValidateToken(p)
    \/ \E p \in Procs : RemoveCachedAuthToken(p)
    \/ \E p \in Procs : StoreToken(p)
    \/ \E p \in Procs : SendMessageGetAuthToken(p)
    \/ \E p \in Procs : GaRespond(p)
    \/ \E p \in Procs : GaCallback(p)
    \/ \E p \in Procs : SendMessageCreateEvent(p)
    \/ \E p \in Procs : MakeRequest(p)
    \/ \E p \in Procs : ClearTokenCache(p)
    \/ \E p \in Procs : CeRemoveCachedAuthToken(p)
    \/ \E p \in Procs : CeRespond(p)
    \/ \E p \in Procs : CeCallback(p)
    \/ \E p \in Procs : Return(p)
    \/ Tick

Spec == Init /\ [][Next]_vars

\* One awaited call of an invocation in progress completes.
Progress ==
    \E p \in Procs :
        \/ CheckCache(p) \/ GetToken(p) \/ ValidateToken(p)
        \/ RemoveCachedAuthToken(p) \/ StoreToken(p)
        \/ SendMessageGetAuthToken(p) \/ GaRespond(p) \/ GaCallback(p)
        \/ SendMessageCreateEvent(p) \/ MakeRequest(p) \/ ClearTokenCache(p)
        \/ CeRemoveCachedAuthToken(p) \/ CeRespond(p) \/ CeCallback(p)

\* Every awaited external call eventually completes.
FairSpec == Spec /\ WF_vars(Progress)

\* ------------------------------------------- interleaved getAuthToken calls
\* getAuthToken invocations in the privileged context, started while others
\* are in progress and interleaved at their awaits.
NextConc ==
    \/ \E p \in Procs, i \in BOOLEAN : CallGetAuthToken(p, i, TRUE)
    \/ \E p \in Procs : CheckCache(p)
    \/ \E p \in Procs : GetToken(p)
    \/ \E p \in Procs : ValidateToken(p)
    \/ \E p \in Procs : RemoveCachedAuthToken(p)
    \/ \E p \in Procs : StoreToken(p)
    \/ \E p \in Procs : Return(p)
    \/ Tick

SpecConc == Init /\ [][NextConc]_vars

\* ------------------------------------------- the fallback branch by itself
\* What the callback of sendMessage({type: "GET_AUTH_TOKEN"}) can be handed: no
\* response, or one with or without a token and with or without an error.
Replies ==
    {[sent |-> 1, data |-> Undefined, token |-> t, error |-> e] :
        t \in Tokens \cup {NoToken},
        e \in {Undefined, "", "No token received", "Error: Token invalid"}}

\* chrome.runtime.sendMessage(..., callback): the channel fails, or the callback
\* is handed whatever the coordinator replied.
CoordinatorReplies(p) ==
    LET r == proc[p]
        s == [r EXCEPT !.gaTrace = Append(@, "sendMessage")]
    IN  /\ r.pc = "ga_sendMessage"
        /\ \/ proc' = [proc EXCEPT ![p] =
                    GaReturn(s, Rejected(StringErr("Could not establish connection.")))]
           \/ \E response \in Replies :
                proc' = [proc EXCEPT ![p] =
                    [s EXCEPT !.pc = "ga_callback", !.reply = response]]
        /\ UNCHANGED <<storage, now, idCached, nextTok, lastProbe, overlayStatus>>

NextReply ==
    \/ \E p \in Procs, i \in BOOLEAN : CallGetAuthToken(p, i, FALSE)
    \/ \E p \in Procs : CheckCache(p)
    \/ \E p \in Procs : CoordinatorReplies(p)
    \/ \E p \in Procs : GaCallback(p)
    \/ \E p \in Procs : Return(p)
    \/ Tick

SpecReply == Init /\ [][NextReply]_vars

\* ------------------------------------------------ the overlay's batch approval
\* handleGenerate has produced the events to review: one per caller.
GenerateEvents ==
    /\ overlayStatus = "idle"
    /\ AllIdle
    /\ overlayStatus' = "review"
    /\ UNCHANGED <<storage, now, idCached, nextTok, lastProbe, proc>>

\* handleApprove: setStatus("creating"), then generatedEvents.map(evt =>
\* createEvent(evt)): every createEvent is started before anything is awaited.
HandleApprove ==
    /\ overlayStatus = "review"
    /\ overlayStatus' = "creating"
    /\ proc' = [p \in Procs |->
            [IdleProc EXCEPT !.op = "createEvent", !.pc = "ce_sendMessage",
                             !.summary = CHOOSE e \in Summaries : TRUE,
                             !.location = CHOOSE l \in Locations : TRUE]]
    /\ UNCHANGED <<storage, now, idCached, nextTok, lastProbe>>

\* Mutant of PendingReaction: the batch is looked at only when every promise
\* has settled.
PendingReactionAllSettled ==
    /\ overlayStatus = "creating"
    /\ \A p \in Procs : proc[p].pc = "done"

\* await Promise.all(...): the continuation of handleApprove is due, because
\* one promise has rejected or all have resolved.
PendingReaction ==
    /\ overlayStatus = "creating"
    /\ \/ \E p \in Procs : proc[p].pc = "done" /\ proc[p].result.st = "rejected"
       \/ \A p \in Procs : proc[p].pc = "done" /\ proc[p].result.st = "resolved"

\* setStatus("success") after the await, setStatus("error") in the catch.
ApproveSettled ==
    /\ PendingReaction
    /\ overlayStatus' =
            IF \E p \in Procs : proc[p].pc = "done" /\ proc[p].result.st = "rejected"
            THEN "error" ELSE "success"
    /\ UNCHANGED <<storage, now, idCached, nextTok, lastProbe, proc>>

\* The timer after a success, or handleRetry after an error, once no
\* submission is in flight: setGeneratedEvents([]), setStatus("idle").
Dismiss ==
    /\ overlayStatus \in {"success", "error"}
    /\ \A p \in Procs : proc[p].pc = "done"
    /\ overlayStatus' = "idle"
    /\ proc' = [p \in Procs |-> IdleProc]
    /\ UNCHANGED <<storage, now, idCached, nextTok, lastProbe>>

\* The answers taken into account for a batch: the provider hands out a token
\* or none, the probe is answered, and the POST is answered 200, 401 or 500
\* with a structured body.
BatchAnswer(r) ==
    /\ r.gaOut.err.msg # "The user did not approve access."
    /\ \A i \in 1 .. Len(r.probes) : r.probes[i] # "neterr"
    /\ \A i \in 1 .. Len(r.posts) :
            /\ r.posts[i].status \in {200, 401, 500}
            /\ r.posts[i].body \in {"data", "error_msg"}
            /\ r.posts[i].id # "xyz"

\* The continuation of handleApprove runs before any other callback once it is
\* due; the submissions of a batch are interleaved at their awaits.
NextBatch ==
    \/ GenerateEvents
    \/ HandleApprove
    \/ ApproveSettled
    \/ Dismiss
    \/ \E p \in Procs : ~PendingReaction /\ SendMessageCreateEvent(p)
    \/ \E p \in Procs : ~PendingReaction /\ CheckCache(p)
    \/ \E p \in Procs : ~PendingReaction /\ GetToken(p) /\ BatchAnswer(proc'[p])
    \/ \E p \in Procs : ~PendingReaction /\ ValidateToken(p) /\ BatchAnswer(proc'[p])
    \/ \E p \in Procs : ~PendingReaction /\ RemoveCachedAuthToken(p)
    \/ \E p \in Procs : ~PendingReaction /\ StoreToken(p)
    \/ \E p \in Procs : ~PendingReaction /\ MakeRequest(p) /\ BatchAnswer(proc'[p])
    \/ \E p \in Procs : ~PendingReaction /\ ClearTokenCache(p)
    \/ \E p \in Procs : ~PendingReaction /\ CeRemoveCachedAuthToken(p)
    \/ \E p \in Procs : ~PendingReaction /\ CeRespond(p)
    \/ \E p \in Procs : ~PendingReaction /\ CeCallback(p)

SpecBatch == Init /\ [][NextBatch]_vars

\* ------------------------------------ clearTokenCache and the user config
\* A caller invokes the exported clearTokenCache() on its own.
CallClearTokenCache(p) ==
    /\ proc[p].op = "idle"
    /\ proc' = [proc EXCEPT ![p] =
            [IdleProc EXCEPT !.op = "clearTokenCache", !.pc = "cc_clear"]]
    /\ UNCHANGED <<storage, now, idCached, nextTok, lastProbe, overlayStatus>>

\* await chrome.storage.local.remove(TOKEN_CACHE_KEY), and nothing else.
ClearTokenCacheDirect(p) ==
    LET r == proc[p] IN
    /\ r.pc = "cc_clear"
    /\ storage' = RemoveKey(storage)
    /\ proc' = [proc EXCEPT ![p] =
            [r EXCEPT !.pc = "done", !.result = Resolved(NoToken, Undefined)]]
    /\ UNCHANGED <<now, idCached, nextTok, lastProbe, overlayStatus>>

\* The config the onboarding screen saves, and a partial one.
Configs ==
    {[aiPreference |-> "safe", onboardingCompleted |-> TRUE],
     [aiPreference |-> "fast"]}

\* { aiPreference: null, onboardingCompleted: false }
DefaultConfig == [aiPreference |-> "null", onboardingCompleted |-> FALSE]

\* { ...current, ...config }
Merge(current, config) ==
    [k \in DOMAIN current \cup DOMAIN config |->
        IF k \in DOMAIN config THEN config[k] ELSE current[k]]

\* A caller invokes saveUserConfig(config).
CallSaveUserConfig(p, config) ==
    /\ proc[p].op = "idle"
    /\ proc' = [proc EXCEPT ![p] =
            [IdleProc EXCEPT !.op = "saveUserConfig", !.pc = "uc_get",
                             !.config = config]]
    /\ UNCHANGED <<storage, now, idCached, nextTok, lastProbe, overlayStatus>>

\* getUserConfig: result[StorageKeys.USER_CONFIG] || the default
GetUserConfig(p) ==
    LET r == proc[p]
        stored == storage[USER_CONFIG_KEY]
    IN  /\ r.pc = "uc_get"
        /\ proc' = [proc EXCEPT ![p] =
                [r EXCEPT !.pc = "uc_set",
                          !.current = IF stored = NoEntry THEN DefaultConfig
                                      ELSE stored]]
        /\ UNCHANGED <<storage, now, idCached, nextTok, lastProbe, overlayStatus>>

\* chrome.storage.local.set({ [StorageKeys.USER_CONFIG]: updated })
SetUserConfig(p) ==
    LET r == proc[p] IN
    /\ r.pc = "uc_set"
    /\ storage' = [storage EXCEPT ![USER_CONFIG_KEY] = Merge(r.current, r.config)]
    /\ proc' = [proc EXCEPT ![p] =
            [r EXCEPT !.pc = "done", !.result = Resolved(NoToken, Undefined)]]
    /\ UNCHANGED <<now, idCached, nextTok, lastProbe, overlayStatus>>

\* Everything of Spec, and the two storage operations called on their own.
NextApi ==
    \/ Next
    \/ \E p \in Procs : AllIdle /\ CallClearTokenCache(p)
    \/ \E p \in Procs : ClearTokenCacheDirect(p)
    \/ \E p \in Procs, c \in Configs : AllIdle /\ CallSaveUserConfig(p, c)
    \/ \E p \in Procs : GetUserConfig(p)
    \/ \E p \in Procs : SetUserConfig(p)

SpecApi == Init /\ [][NextApi]_vars

\* ------------------------------------------------------------- properties
Count(tr, e) == Cardinality({i \in 1 .. Len(tr) : tr[i] = e})
Has(tr, e) == Count(tr, e) > 0
Acquisitions(tr) ==
    Count(tr, "identity.getAuthToken(true)") + Count(tr, "identity.getAuthToken(false)")
\* What a getAuthToken invocation did after its (latest) cache read.
SinceCheck(tr) ==
    LET reads == {i \in 1 .. Len(tr) : tr[i] = "storage.get"}
        last == CHOOSE i \in reads : \A j \in reads : j <= i
    IN  IF reads = {} THEN tr ELSE SubSeq(tr, last + 1, Len(tr))

\* The current getAuthToken invocation of r has read the cache.
Checked(r) == r.nowL # -1
\* ... and found an entry with a token, less than MAX_AGE old.
ReadFresh(r) ==
    /\ Checked(r)
    /\ r.cachedData.token # NoToken
    /\ r.nowL - r.cachedData.timestamp < MAX_AGE
\* ... and found an entry with a token, MAX_AGE old or older.
ReadStale(r) ==
    /\ Checked(r)
    /\ r.cachedData.token # NoToken
    /\ r.nowL - r.cachedData.timestamp >= MAX_AGE

\* C1 (freshness): a getAuthToken invocation, interactive or not, that reads a
\* cache entry with a non-empty token and now - timestamp < MAX_AGE returns
\* exactly the cached token, and after the read it asks the identity provider
\* for nothing, probes nothing, sends no message and writes no storage.
C1_Freshness ==
    \A p \in Procs :
        LET r == proc[p] IN
        ReadFresh(r) =>
            /\ r.gaOut = Resolved(r.cachedData.token, Undefined)
            /\ SinceCheck(r.gaTrace) = <<>>
            /\ Acquisitions(r.gaTrace) = 0
            /\ ~Has(r.gaTrace, "validateToken")
            /\ ~Has(r.gaTrace, "storage.set")
            /\ ~Has(r.gaTrace, "removeCachedAuthToken")
            /\ (r.ret = "caller" => ~Has(r.gaTrace, "sendMessage"))

\* A silent getAuthToken(false) has returned the token of a 25-minute-old entry.
C1_Witness ==
    \E p \in Procs :
        LET r == proc[p] IN
        /\ r.op = "getAuthToken" /\ r.pc = "done" /\ ~r.interactive
        /\ ReadFresh(r)
        /\ r.nowL - r.cachedData.timestamp = TickMs
        /\ r.result = Resolved(r.cachedData.token, Undefined)

\* getAuthToken has settled and nothing of the invocation that awaited it has
\* touched storage since.
JustSettled(r) == r.gaOut.st # "pending" /\ r.pc # "ce_remove"

\* C2 (expiry): a getAuthToken invocation that reads a cache entry with
\* now - timestamp >= MAX_AGE (the boundary included) never returns from the
\* fast path: it goes on to the identity provider (or, without chrome.identity,
\* to the coordinator), and the token it returns was acquired and probed in this
\* invocation and written to the cache with a new timestamp.
C2_Expiry ==
    \A p \in Procs :
        LET r == proc[p]
            tr == SinceCheck(r.gaTrace)
            entry == storage[TOKEN_CACHE_KEY]
        IN
        ReadStale(r) =>
            /\ r.pc # "ga_check" =>
                    \/ r.pc \in {"ga_getToken1", "ga_sendMessage"}
                    \/ Acquisitions(r.gaTrace) >= 1
                    \/ Has(r.gaTrace, "sendMessage")
            /\ (r.gaOut.st = "resolved" /\ JustSettled(r)) =>
                    /\ Acquisitions(tr) >= 1
                    /\ Has(tr, "validateToken")
                    /\ tr[Len(tr)] = "storage.set"
                    /\ r.isValid /\ r.token = r.gaOut.tok
                    /\ entry.token = r.gaOut.tok
                    /\ entry.timestamp >= r.nowL
                    /\ entry.timestamp > r.cachedData.timestamp

\* An entry exactly MAX_AGE old was read, and the invocation returned a newly
\* acquired token.
C2_Witness ==
    \E p \in Procs :
        LET r == proc[p] IN
        /\ r.pc = "done" /\ r.op = "getAuthToken"
        /\ ReadStale(r)
        /\ r.nowL - r.cachedData.timestamp = MAX_AGE
        /\ r.result.st = "resolved"
        /\ r.result.tok # r.cachedData.token

IsPrefix(a, b) == Len(a) <= Len(b) /\ a = SubSeq(b, 1, Len(a))
\* What one createEventDirect invocation does at most, in order.
FullSubmission ==
    <<"getAuthToken", "POST", "clearTokenCache", "removeCachedAuthToken",
      "getAuthToken", "POST">>
Finished(r) == r.pc \in {"ce_respond", "ce_callback", "done"}

\* C3 (at most one retry): one createEventDirect invocation issues at most two
\* POSTs whatever the provider answers, and after a second 401 it fails with
\* no third request, no further clearTokenCache and no further getAuthToken.
C3_AtMostOneRetry ==
    \A p \in Procs :
        LET r == proc[p] IN
        /\ Len(r.posts) <= 2
        /\ Count(r.ceTrace, "POST") = Len(r.posts)
        /\ Count(r.ceTrace, "clearTokenCache") <= 1
        /\ Count(r.ceTrace, "removeCachedAuthToken") <= 1
        /\ Count(r.ceTrace, "getAuthToken") <= 2
        /\ (Len(r.posts) = 2 /\ r.posts[2].status = 401) =>
                /\ Finished(r)
                /\ r.ceOut.st = "rejected"
                /\ r.ceTrace = FullSubmission
                /\ storage[TOKEN_CACHE_KEY].token = r.posts[2].tok

\* Both POSTs of a finished submission were answered 401.
C3_Witness ==
    \E p \in Procs :
        LET r == proc[p] IN
        /\ r.pc = "done" /\ Len(r.posts) = 2
        /\ r.posts[1].status = 401 /\ r.posts[2].status = 401
        /\ r.result.st = "rejected"

\* C4 (401 healing): after a first POST answered 401, createEventDirect calls
\* clearTokenCache, then getAuthToken(true); when that returns a token it
\* issues exactly one second POST, carrying that token, and a successful second
\* POST makes the invocation resolve with the second response's body.
C4_Healing ==
    \A p \in Procs :
        LET r == proc[p] IN
        (Len(r.posts) >= 1 /\ r.posts[1].status = 401) =>
            /\ IsPrefix(r.ceTrace, FullSubmission)
            /\ r.pc = "ce_clear" <=> Len(r.ceTrace) = 2
            /\ r.pc = "ce_remove" <=> Len(r.ceTrace) = 3
            /\ Len(r.ceTrace) >= 5 => r.ret = "retry" /\ r.interactive
            /\ (Len(r.ceTrace) >= 5 /\ r.gaOut.st = "resolved") =>
                    \/ /\ r.pc = "ce_post2" /\ Len(r.posts) = 1
                       /\ r.ceToken = r.gaOut.tok
                    \/ /\ Finished(r) /\ Len(r.posts) = 2
                       /\ r.posts[2].tok = r.gaOut.tok
            /\ (Len(r.posts) = 2 /\ ResponseOk(r.posts[2].status)) =>
                    /\ r.ceOut = Resolved(NoToken, r.posts[2].id)
                    /\ r.posts[2].id # Undefined

\* A 401, then a successful retry with another token: the caller has the
\* retry's body.
C4_Witness ==
    \E p \in Procs :
        LET r == proc[p] IN
        /\ r.pc = "done" /\ Len(r.posts) = 2
        /\ r.posts[1].status = 401 /\ r.posts[2].status = 200
        /\ r.posts[2].tok # r.posts[1].tok
        /\ r.result = Resolved(NoToken, r.posts[2].id)

\* C5 (non-401 failure): a first POST answered with a failure status other
\* than 401 and a parseable error payload is not retried, and createEventDirect
\* fails with the payload's message, or "Failed to create event" without one.
C5_NoRetryOnOtherFailure ==
    \A p \in Procs :
        LET r == proc[p] IN
        (/\ Len(r.posts) >= 1
         /\ r.posts[1].status \in {403, 500}
         /\ r.posts[1].body \in {"error_msg", "error_nomsg"}) =>
            /\ Len(r.posts) = 1
            /\ r.ceTrace = <<"getAuthToken", "POST">>
            /\ Finished(r)
            /\ r.ceOut = Rejected(ErrorObj(
                    IF r.posts[1].body = "error_msg" THEN "Forbidden"
                    ELSE "Failed to create event"))

\* A 403 with the message "Forbidden" reached the caller as that error.
C5_Witness ==
    \E p \in Procs :
        LET r == proc[p] IN
        /\ r.pc = "done" /\ Len(r.posts) = 1
        /\ r.posts[1].status = 403 /\ r.posts[1].body = "error_msg"
        /\ r.result = Rejected(ErrorObj("Forbidden"))

\* C6 (no credential error is swallowed): a submission through createEvent
\* whose createEventDirect failed is answered by the background handler with a
\* non-empty error, and the caller's createEvent promise rejects.
C6_NoErrorSwallowed ==
    \A p \in Procs :
        LET r == proc[p] IN
        (r.op = "createEvent" /\ r.ceOut.st = "rejected") =>
            /\ r.reply.sent >= 1 => Truthy(r.reply.error)
            /\ r.pc = "done" => r.result.st = "rejected"

\* C7 (a rejected token is not reused): with one invocation at a time, after
\* the first POST with token T was answered 401 the cache entry and the
\* provider's cached T are gone when the re-fetch reads the cache, and the
\* token of the retry was acquired and validated anew and is not T.
C7_RejectedTokenNotReused ==
    \A p \in Procs :
        LET r == proc[p] IN
        /\ (r.ret = "retry" /\ r.pc = "ga_check") =>
                /\ storage[TOKEN_CACHE_KEY] = NoEntry
                /\ idCached # r.posts[1].tok
        /\ (r.ret = "retry" /\ r.pc = "ce_post2") =>
                /\ r.ceToken # r.posts[1].tok
                /\ r.cachedData = NoEntry
        /\ Len(r.posts) = 2 =>
                /\ r.posts[1].status = 401
                /\ r.posts[2].tok # r.posts[1].tok
                /\ Acquisitions(r.gaTrace) >= 1
                /\ Has(r.gaTrace, "validateToken")
                /\ r.isValid /\ r.token = r.posts[2].tok
                /\ lastProbe[r.posts[2].tok].last = "ok"

\* The rejected token had come from the cache, and the retry went out with
\* another one.
C7_Witness ==
    \E p \in Procs :
        LET r == proc[p] IN
        /\ r.pc = "done" /\ Len(r.posts) = 2
        /\ r.posts[1].status = 401
        /\ r.posts[1].tok # r.posts[2].tok
        /\ lastProbe[r.posts[1].tok].last = "ok"

\* C8 (silent mode never prompts): during getAuthToken(false), direct or run
\* by the coordinator for a GET_AUTH_TOKEN message, the identity provider is
\* never asked in interactive mode; a silently acquired token that fails
\* validation makes getAuthToken fail with "Token invalid" after exactly one
\* acquisition and one probe.
C8_SilentNeverPrompts ==
    \A p \in Procs :
        LET r == proc[p] IN
        (r.op # "idle" /\ ~r.interactive) =>
            /\ ~Has(r.gaTrace, "identity.getAuthToken(true)")
            /\ r.pc \notin {"ga_getToken2", "ga_validate2"}
            /\ (Has(r.gaTrace, "validateToken") /\ ~r.isValid) =>
                    /\ Acquisitions(r.gaTrace) = 1
                    /\ Count(r.gaTrace, "validateToken") = 1
                    /\ \/ r.pc = "ga_remove"
                       \/ r.gaOut = Rejected(ErrorObj("Token invalid"))
                    /\ r.pc = "done" => r.result.st = "rejected"

\* A delegated getAuthToken(false) failed on an invalid token.
C8_Witness ==
    \E p \in Procs :
        LET r == proc[p] IN
        /\ r.pc = "done" /\ ~r.interactive /\ r.ret = "handler"
        /\ r.gaTrace = <<"storage.get", "sendMessage", "storage.get",
                         "identity.getAuthToken(false)", "validateToken",
                         "removeCachedAuthToken">>
        /\ r.result.st = "rejected"

\* C9 (forced re-authentication is bounded): in getAuthToken(true) a first
\* token that fails validation is discarded from the provider's cache, and
\* acquisition and validation are repeated exactly once, interactively; a
\* second invalid token makes getAuthToken fail with "Token still invalid
\* after refresh".  No invocation acquires or probes more than twice.
C9_BoundedReauthentication ==
    \A p \in Procs :
        LET r == proc[p]
            tr == SinceCheck(r.gaTrace)
            probes == Count(tr, "validateToken")
        IN
        /\ Acquisitions(tr) <= 2
        /\ probes <= 2
        /\ Count(tr, "removeCachedAuthToken") <= 1
        /\ (r.op # "idle" /\ r.interactive /\ probes = 1 /\ ~r.isValid) =>
                \/ r.pc = "ga_remove"
                \/ /\ r.pc = "ga_getToken2"
                   /\ tr = <<"identity.getAuthToken(true)", "validateToken",
                             "removeCachedAuthToken">>
                   /\ idCached # r.token
                \/ /\ r.pc = "ga_validate2"
                   /\ tr = <<"identity.getAuthToken(true)", "validateToken",
                             "removeCachedAuthToken", "identity.getAuthToken(true)">>
                \/ r.gaOut.st = "rejected" /\ Acquisitions(tr) = 2
        /\ probes = 2 =>
                /\ r.interactive
                /\ IsPrefix(<<"identity.getAuthToken(true)", "validateToken",
                              "removeCachedAuthToken", "identity.getAuthToken(true)",
                              "validateToken">>, tr)
                /\ ~r.isValid =>
                        /\ r.gaOut = Rejected(ErrorObj("Token still invalid after refresh"))
                        /\ Len(tr) = 5

\* getAuthToken(true) gave up after the second invalid token.
C9_Witness ==
    \E p \in Procs :
        LET r == proc[p] IN
        /\ r.op = "getAuthToken" /\ r.pc = "done" /\ r.ret = "caller"
        /\ Count(r.gaTrace, "validateToken") = 2
        /\ r.result = Rejected(ErrorObj("Token still invalid after refresh"))

\* C10 (only validated tokens are cached): the token under the cache key has
\* passed a validation probe; an invocation that wrote or returns a token saw
\* that token's last probe succeed.
C10_OnlyValidatedCached ==
    /\ storage[TOKEN_CACHE_KEY] # NoEntry =>
            lastProbe[storage[TOKEN_CACHE_KEY].token].everOk
    /\ \A p \in Procs :
        LET r == proc[p] IN
        /\ Has(SinceCheck(r.gaTrace), "storage.set") =>
                /\ r.isValid
                /\ r.gaOut = Resolved(r.token, Undefined)
                /\ lastProbe[r.token].last = "ok"
                /\ JustSettled(r) => storage[TOKEN_CACHE_KEY].token = r.token
        /\ r.pc = "ga_store" => r.isValid /\ lastProbe[r.token].last = "ok"
        /\ r.gaOut.st = "resolved" => lastProbe[r.gaOut.tok].last = "ok"

\* The first token failed its probe and was dropped; the second passed and is
\* the one in the cache.
C10_Witness ==
    \E p \in Procs :
        LET r == proc[p] IN
        /\ r.pc = "done"
        /\ Has(r.gaTrace, "removeCachedAuthToken")
        /\ Has(r.gaTrace, "storage.set")
        /\ storage[TOKEN_CACHE_KEY].token = r.token
        /\ \E t \in Tokens : t # r.token /\ lastProbe[t].last = "fail"

\* The last POST of a finished createEventDirect invocation.
FinalPost(r) == r.posts[Len(r.posts)]
HasFinalResponse(r) ==
    /\ Finished(r)
    /\ Len(r.posts) >= 1
    /\ FinalPost(r).body # "neterr"

\* C11 (unparseable error payload): when the final response is not successful
\* and its body is no parseable error payload, createEventDirect fails with
\* the fallback message "Failed to create event".
C11_UnparseableFallback ==
    \A p \in Procs :
        LET r == proc[p] IN
        (/\ HasFinalResponse(r)
         /\ ~ResponseOk(FinalPost(r).status)
         /\ FinalPost(r).body = "garbage") =>
            r.ceOut = Rejected(ErrorObj("Failed to create event"))

\* A step of p that is clearTokenCache completing, inside createEventDirect or
\* called on its own.
ClearStep(p) ==
    /\ proc[p].pc \in {"ce_clear", "cc_clear"}
    /\ proc'[p].pc # proc[p].pc

\* C12 (idempotent invalidate): clearTokenCache completes without failing
\* whether or not a token is cached; afterwards the cache key is absent, and a
\* call that finds the key absent changes nothing in storage, so two calls
\* leave what one call leaves.
C12_IdempotentInvalidate ==
    /\ [][\A p \in Procs :
            ClearStep(p) =>
                /\ storage'[TOKEN_CACHE_KEY] = NoEntry
                /\ storage[TOKEN_CACHE_KEY] = NoEntry => storage' = storage
                /\ proc'[p].pc \in {"ce_remove", "done"}
                /\ proc'[p].pc = "done" => proc'[p].result.st = "resolved"]_vars
    /\ [](\A p \in Procs :
            (proc[p].op = "clearTokenCache" /\ proc[p].pc = "done") =>
                /\ storage[TOKEN_CACHE_KEY] = NoEntry
                /\ proc[p].result.st = "resolved"
                /\ RemoveKey(storage) = storage)
    /\ [](RemoveKey(RemoveKey(storage)) = RemoveKey(storage))

\* clearTokenCache has completed although no token was ever issued or cached,
\* with a user config in storage.
C12_Witness ==
    \E p \in Procs :
        /\ proc[p].op = "clearTokenCache" /\ proc[p].pc = "done"
        /\ proc[p].result.st = "resolved"
        /\ nextTok = 1
        /\ storage[USER_CONFIG_KEY] # NoEntry

\* C19 (ownership of the cache key): the token cache key changes only when
\* getAuthToken sets it or clearTokenCache removes it, never in a step of
\* saveUserConfig or of the background handler; the user-config key changes
\* only in saveUserConfig's set, never in getAuthToken or clearTokenCache.
C19_CacheKeyOwnership ==
    /\ [][storage'[TOKEN_CACHE_KEY] # storage[TOKEN_CACHE_KEY] =>
            \E p \in Procs :
                \/ /\ proc[p].pc = "ga_store"
                   /\ proc'[p].gaTrace = Append(proc[p].gaTrace, "storage.set")
                   /\ storage'[TOKEN_CACHE_KEY].token = proc[p].token
                \/ /\ ClearStep(p)
                   /\ storage'[TOKEN_CACHE_KEY] = NoEntry]_vars
    /\ [][storage'[USER_CONFIG_KEY] # storage[USER_CONFIG_KEY] =>
            \E p \in Procs :
                /\ proc[p].op = "saveUserConfig" /\ proc[p].pc = "uc_set"
                /\ proc'[p].pc = "done"]_vars
    /\ [][(\E p \in Procs : proc[p].op = "saveUserConfig"
                            /\ proc'[p].op = "saveUserConfig") =>
            storage'[TOKEN_CACHE_KEY] = storage[TOKEN_CACHE_KEY]]_vars

\* A token is cached, a user config is saved, and clearTokenCache has just
\* removed the one and left the other.
C19_Witness ==
    \E p \in Procs :
        /\ proc[p].op = "clearTokenCache" /\ proc[p].pc = "done"
        /\ storage[TOKEN_CACHE_KEY] = NoEntry
        /\ storage[USER_CONFIG_KEY] = [aiPreference |-> "fast",
                                       onboardingCompleted |-> TRUE]
        /\ idCached # NoToken /\ lastProbe[idCached].everOk

\* C13 (prefix application): every POST of createEventDirect, the first and
\* the retry, carries a summary that is the marker followed once by the input
\* summary, and the input's other fields; the caller's event stays as it was.
C13_PrefixApplication ==
    /\ [](\A p \in Procs :
            LET r == proc[p] IN
            \A i \in 1 .. Len(r.posts) :
                /\ r.posts[i].summary = LANNER_PREFIX \o r.summary
                /\ r.summary = "Dentist" => r.posts[i].summary = "[N] Dentist"
                /\ r.posts[i].location = r.location
                /\ r.summary \in Summaries /\ r.location \in Locations)
    /\ [][\A p \in Procs :
            (proc[p].op = "createEvent" /\ proc'[p].op = "createEvent") =>
                /\ proc'[p].summary = proc[p].summary
                /\ proc'[p].location = proc[p].location]_vars

\* Both POSTs of a retried submission carried the prefixed summary.
C13_Witness ==
    \E p \in Procs :
        LET r == proc[p] IN
        /\ r.pc = "done" /\ r.summary = "Dentist" /\ Len(r.posts) = 2
        /\ r.posts[1].summary = "[N] Dentist"
        /\ r.posts[2].summary = "[N] Dentist"
        /\ r.posts[2].location = "Clinic"

\* C14 (success result): when the final POST is successful, createEvent,
\* through the CREATE_EVENT relay, resolves with exactly the parsed body of
\* that final response; after a 401 and a successful retry that is the
\* retry's body.
C14_SuccessResult ==
    \A p \in Procs :
        LET r == proc[p] IN
        (HasFinalResponse(r) /\ ResponseOk(FinalPost(r).status)) =>
            /\ r.ceOut = Resolved(NoToken, FinalPost(r).id)
            /\ r.response.id = FinalPost(r).id
            /\ r.reply.sent >= 1 =>
                    /\ r.reply.data = FinalPost(r).id
                    /\ r.reply.error = Undefined
            /\ r.pc = "done" =>
                    /\ r.result = Resolved(NoToken, FinalPost(r).id)
                    /\ r.result.data \in {"abc", "xyz"}

\* The caller has the body of a first POST that succeeded.
C14_Witness ==
    \E p \in Procs :
        LET r == proc[p] IN
        /\ r.op = "createEvent" /\ r.pc = "done" /\ Len(r.posts) = 1
        /\ r.posts[1].status = 200 /\ r.posts[1].id = "xyz"
        /\ r.result.st = "resolved" /\ r.result.data = "xyz"

\* C15 (delegated getAuthToken equals the direct one): a getAuthToken that was
\* answered by the GET_AUTH_TOKEN handler resolves with the token the
\* handler's direct getAuthToken resolved with, rejects exactly when that one
\* rejected, and then with the same error message.
C15_DelegatedEqualsDirect ==
    \A p \in Procs :
        LET r == proc[p] IN
        (r.op = "getAuthToken" /\ r.pc = "done" /\ r.reply.sent >= 1) =>
            /\ r.result.st = r.gaOut.st
            /\ r.result.tok = r.gaOut.tok
            /\ r.result.st = "rejected" => r.result.err.msg = r.gaOut.err.msg

\* C16 (termination of a submission): when every awaited call eventually
\* completes, a createEventDirect invocation that has started eventually
\* settles as resolved or rejected, and from then on issues no request, writes
\* no storage and calls the provider no more.
C16_Termination ==
    /\ \A p \in Procs :
            (proc[p].op = "createEvent" /\ proc[p].ceTrace # <<>>)
                ~> (proc[p].ceOut # Pending)
    /\ [](\A p \in Procs :
            proc[p].ceOut # Pending =>
                /\ proc[p].ceOut.st \in {"resolved", "rejected"}
                /\ Finished(proc[p]))
    /\ [][\A p \in Procs :
            (proc[p].ceOut # Pending /\ proc'[p].pc # "idle") =>
                /\ proc'[p].ceOut = proc[p].ceOut
                /\ proc'[p].posts = proc[p].posts
                /\ proc'[p].ceTrace = proc[p].ceTrace
                /\ proc'[p].gaTrace = proc[p].gaTrace
                /\ storage' = storage
                /\ idCached' = idCached
                /\ nextTok' = nextTok
                /\ lastProbe' = lastProbe]_vars

\* A submission that failed on its retried POST has reached the caller.
C16_Witness ==
    \E p \in Procs :
        LET r == proc[p] IN
        /\ r.op = "createEvent" /\ r.pc = "done"
        /\ r.ceOut.st = "rejected"
        /\ Len(r.posts) = 2 /\ r.posts[2].status = 500

\* C17 (ordering within one submission): a POST is issued only when the
\* getAuthToken before it has settled with the token the POST carries, and
\* after a 401 the re-fetching getAuthToken reads storage only after the
\* removal of the cache key has completed.
C17_Ordering ==
    /\ [](\A p \in Procs :
            LET r == proc[p] IN
            /\ r.pc \in {"ce_post1", "ce_post2"} =>
                    /\ r.gaOut.st = "resolved"
                    /\ r.gaOut.tok # NoToken
                    /\ r.ceToken = r.gaOut.tok
            /\ \A i \in 1 .. Len(r.ceTrace) :
                    r.ceTrace[i] = "POST" =>
                        i > 1 /\ r.ceTrace[i - 1] = "getAuthToken"
            /\ \A i \in 1 .. Len(r.posts) : r.posts[i].tok # NoToken)
    /\ [][\A p \in Procs :
            (/\ proc[p].ret = "retry"
             /\ proc[p].pc = "ga_check"
             /\ proc'[p].pc # "ga_check") =>
                /\ Has(proc[p].ceTrace, "clearTokenCache")
                /\ storage[TOKEN_CACHE_KEY] = NoEntry
                /\ proc'[p].cachedData = NoEntry]_vars

\* The re-fetch after a 401 has read storage, found no entry and goes to the
\* identity provider.
C17_Witness ==
    \E p \in Procs :
        LET r == proc[p] IN
        /\ r.ret = "retry" /\ r.pc = "ga_getToken1"
        /\ r.gaTrace = <<"storage.get">>
        /\ r.cachedData = NoEntry
        /\ r.posts[1].status = 401
        /\ r.posts[1].tok = 1

\* The trace of a getAuthToken invocation whose first acquisition and
\* validation succeeded.
Refreshed(r, i) ==
    r.gaTrace = <<"storage.get", AcquireEvent(i), "validateToken", "storage.set">>

\* A step of p that is its storage.set completing.
StoreStep(p) ==
    /\ proc[p].pc = "ga_store"
    /\ proc'[p].pc # "ga_store"

\* C18 (concurrent refresh is benign): when two interleaved getAuthToken
\* invocations both read a stale entry and both acquire and validate with
\* success, both resolve with the token they validated, and storage holds the
\* entry of the later write: every write replaces the entry with the writer's
\* token and time, and nothing else changes it.
C18_ConcurrentRefresh ==
    /\ [](\A p, q \in Procs :
            LET r == proc[p]
                u == proc[q]
            IN  (/\ p # q
                 /\ r.pc = "done" /\ u.pc = "done"
                 /\ ReadStale(r) /\ ReadStale(u)
                 /\ Refreshed(r, r.interactive) /\ Refreshed(u, u.interactive)) =>
                    /\ r.result = Resolved(r.token, Undefined)
                    /\ r.token # NoToken /\ r.isValid
                    /\ lastProbe[r.token].everOk
                    /\ storage[TOKEN_CACHE_KEY].token \in {r.token, u.token}
                    /\ storage[TOKEN_CACHE_KEY].timestamp >= r.nowL)
    /\ [][\A p \in Procs :
            StoreStep(p) =>
                storage'[TOKEN_CACHE_KEY] =
                    [token |-> proc[p].token, timestamp |-> now]]_vars
    /\ [][storage' # storage => \E p \in Procs : StoreStep(p)]_vars

\* Both invocations read the same stale entry, acquired different tokens and
\* wrote; the cache holds the token of one of them.
C18_Witness ==
    \E p, q \in Procs :
        LET r == proc[p]
            u == proc[q]
        IN  /\ p # q
            /\ r.pc = "done" /\ u.pc = "done"
            /\ ReadStale(r) /\ ReadStale(u)
            /\ r.cachedData = u.cachedData
            /\ Refreshed(r, r.interactive) /\ Refreshed(u, u.interactive)
            /\ r.result.st = "resolved" /\ u.result.st = "resolved"
            /\ r.token # u.token
            /\ storage[TOKEN_CACHE_KEY].token = u.token

\* C20 as stated (provider-side discard only in forced re-authentication): an
\* invocation of getAuthToken that called the provider's discard is an
\* interactive one, and createEventDirect, clearTokenCache included, calls it
\* on no path of its own.
C20_DiscardOnlyForced ==
    \A p \in Procs :
        LET r == proc[p] IN
        /\ Has(r.gaTrace, "removeCachedAuthToken") => r.interactive
        /\ ~Has(r.ceTrace, "removeCachedAuthToken")

\* A step of p that calls chrome.identity.removeCachedAuthToken.
DiscardStep(p) ==
    /\ proc[p].pc \in {"ga_remove", "ce_remove"}
    /\ proc'[p].pc # proc[p].pc

\* C20 (amended): clearTokenCache changes only the cache key in storage and
\* leaves the provider alone; the provider's discard is called in two places
\* only: in getAuthToken right after a failed first validation, interactive or
\* not, and in createEventDirect right after the clearTokenCache that follows
\* a 401 on the first POST.
C20_DiscardPlaces ==
    /\ [][\A p \in Procs :
            ClearStep(p) =>
                /\ idCached' = idCached
                /\ nextTok' = nextTok
                /\ lastProbe' = lastProbe
                /\ storage'[USER_CONFIG_KEY] = storage[USER_CONFIG_KEY]
                /\ proc'[p].gaTrace = proc[p].gaTrace
                /\ ~Has(proc'[p].ceTrace, "removeCachedAuthToken")]_vars
    /\ [][(idCached' = NoToken /\ idCached # NoToken) =>
            \E p \in Procs : DiscardStep(p)]_vars
    /\ [](\A p \in Procs :
            LET r == proc[p]
                tr == SinceCheck(r.gaTrace)
            IN  /\ Has(r.gaTrace, "removeCachedAuthToken") =>
                    /\ Count(r.gaTrace, "removeCachedAuthToken") = 1
                    /\ Len(tr) >= 3
                    /\ tr[1] = AcquireEvent(r.interactive)
                    /\ tr[2] = "validateToken"
                    /\ tr[3] = "removeCachedAuthToken"
                /\ Has(r.ceTrace, "removeCachedAuthToken") =>
                    /\ Count(r.ceTrace, "removeCachedAuthToken") = 1
                    /\ IsPrefix(<<"getAuthToken", "POST", "clearTokenCache",
                                  "removeCachedAuthToken">>, r.ceTrace)
                    /\ r.posts[1].status = 401)

\* A non-interactive getAuthToken, called directly, dropped the provider's
\* cached token after its probe failed.
C20_Witness ==
    \E p \in Procs :
        LET r == proc[p] IN
        /\ r.op = "getAuthToken" /\ r.pc = "done" /\ r.ret = "caller"
        /\ ~r.interactive
        /\ r.gaTrace = <<"storage.get", "identity.getAuthToken(false)",
                         "validateToken", "removeCachedAuthToken">>
        /\ idCached = NoToken
        /\ r.result = Rejected(ErrorObj("Token invalid"))

\* C21 (invalidation on failed validation): when getAuthToken fails because a
\* validation probe failed, storage holds no cached token afterwards.
C21_InvalidatedOnFailedValidation ==
    \A p \in Procs :
        LET r == proc[p] IN
        (/\ r.gaOut.st = "rejected"
         /\ r.gaOut.err \in {ErrorObj("Token invalid"),
                             ErrorObj("Token still invalid after refresh")}) =>
            storage[TOKEN_CACHE_KEY] = NoEntry

\* The last thing the current getAuthToken invocation of r did was to ask the
\* identity provider for a token.
EndsWithAcquisition(r) ==
    /\ r.gaTrace # <<>>
    /\ r.gaTrace[Len(r.gaTrace)] \in {AcquireEvent(TRUE), AcquireEvent(FALSE)}

\* A step of p in which chrome.identity.getAuthToken calls back.
AcquireStep(p) ==
    /\ proc[p].pc \in {"ga_getToken1", "ga_getToken2"}
    /\ proc'[p].pc # proc[p].pc

\* C22 (no token received): when the identity provider returns no token or
\* reports an error, getAuthToken rejects with the provider's message or with
\* "No token received", issues no validation probe for it (none at all when it
\* was the first acquisition), and storage is what it was before the call.
C22_NoTokenReceived ==
    /\ [](\A p \in Procs :
            LET r == proc[p] IN
            /\ (r.gaOut.st = "rejected" /\ EndsWithAcquisition(r)) =>
                    /\ r.gaOut.err \in {StringErr("The user did not approve access."),
                                        StringErr("No token received")}
                    /\ Acquisitions(SinceCheck(r.gaTrace)) = 1 =>
                            ~Has(SinceCheck(r.gaTrace), "validateToken")
                    /\ ~Has(r.gaTrace, "storage.set")
            /\ (r.gaOut.st = "rejected" /\ r.gaOut.err.kind = "string"
                    /\ r.hasIdentity) =>
                    EndsWithAcquisition(r)
            /\ (r.gaOut.st = "rejected" /\ EndsWithAcquisition(r)
                    /\ JustSettled(r)) =>
                    storage[TOKEN_CACHE_KEY] = r.cachedData)
    /\ [][\A p \in Procs :
            (AcquireStep(p) /\ proc'[p].gaOut.st = "rejected") =>
                /\ storage' = storage
                /\ lastProbe' = lastProbe
                /\ proc'[p].gaOut.err.msg # Undefined
                /\ proc'[p].gaOut.err.msg # ""]_vars

\* The cache entry was stale, the provider returned no token: getAuthToken
\* rejected without a probe and the entry is still there.
C22_Witness ==
    \E p \in Procs :
        LET r == proc[p] IN
        /\ r.op = "getAuthToken" /\ r.pc = "done"
        /\ ReadStale(r)
        /\ r.gaTrace = <<"storage.get", "identity.getAuthToken(true)">>
        /\ r.result = Rejected(StringErr("No token received"))
        /\ storage[TOKEN_CACHE_KEY] = r.cachedData

\* C23 (delegation failure): in the fallback branch getAuthToken resolves only
\* when the coordinator's reply carries a non-empty token and no error, and
\* then with that token; it rejects when the channel reports an error, when
\* the reply carries an error, and when the reply is missing or has no token.
C23_DelegationFailure ==
    \A p \in Procs :
        LET r == proc[p]
            ch == r.reply
        IN  (/\ r.op = "getAuthToken" /\ r.pc = "done"
             /\ ~r.hasIdentity
             /\ Has(r.gaTrace, "sendMessage")) =>
                /\ r.result.st \in {"resolved", "rejected"}
                /\ r.result.st = "resolved" <=>
                        (ch.sent >= 1 /\ ~Truthy(ch.error) /\ ch.token # NoToken)
                /\ r.result.st = "resolved" =>
                        r.result = Resolved(ch.token, Undefined)
                /\ ch.sent = 0 =>
                        r.result = Rejected(StringErr("Could not establish connection."))
                /\ (ch.sent >= 1 /\ Truthy(ch.error)) =>
                        r.result = Rejected(StringErr(ch.error))
                /\ (ch.sent >= 1 /\ ~Truthy(ch.error) /\ ch.token = NoToken) =>
                        r.result = Rejected(
                            StringErr("Failed to retrieve token from background"))

\* The reply carried neither a token nor an error, and getAuthToken rejected.
C23_Witness ==
    \E p \in Procs :
        LET r == proc[p] IN
        /\ r.op = "getAuthToken" /\ r.pc = "done" /\ ~r.hasIdentity
        /\ r.reply.sent = 1
        /\ r.reply.token = NoToken /\ r.reply.error = Undefined
        /\ r.result = Rejected(StringErr("Failed to retrieve token from background"))

\* C24 (message protocol): the background handler answers every CREATE_EVENT
\* and every GET_AUTH_TOKEN request exactly once, and the response carries
\* either the result (data / token) or a non-empty error, never both and
\* never neither.
C24_MessageProtocol ==
    \A p \in Procs :
        LET r == proc[p]
            hasResult == IF r.op = "createEvent" THEN r.reply.data # Undefined
                         ELSE r.reply.token # NoToken
        IN  /\ r.reply.sent <= 1
            /\ (r.pc \in {"ga_callback", "ce_callback"}) => r.reply.sent = 1
            /\ r.reply.sent = 1 => (hasResult <=> ~Truthy(r.reply.error))

\* C26 (failed re-authentication after a 401): when the first POST was
\* answered 401 and the getAuthToken(true) that follows fails,
\* createEventDirect fails with that error, issues no second POST, and, with
\* no other invocation in progress, storage holds no cached token.
C26_FailedReauthentication ==
    \A p \in Procs :
        LET r == proc[p] IN
        (r.ret = "retry" /\ r.gaOut.st = "rejected") =>
            /\ r.interactive
            /\ r.ceOut = r.gaOut
            /\ Finished(r)
            /\ Len(r.posts) = 1 /\ r.posts[1].status = 401
            /\ r.ceTrace = SubSeq(FullSubmission, 1, 5)
            /\ storage[TOKEN_CACHE_KEY] = NoEntry

\* After a 401 the user declined the consent prompt of the re-fetch; the
\* submission has failed with one POST made.
C26_Witness ==
    \E p \in Procs :
        LET r == proc[p] IN
        /\ r.pc = "ce_respond" /\ r.ret = "retry"
        /\ r.ceOut = Rejected(StringErr("The user did not approve access."))
        /\ Len(r.posts) = 1 /\ r.posts[1].status = 401
        /\ storage[TOKEN_CACHE_KEY] = NoEntry

\* A step of p that belongs to a createEvent call whose first POST has been
\* answered, and not with 401.
AfterNon401(p) ==
    /\ proc[p].op = "createEvent"
    /\ Len(proc[p].posts) >= 1
    /\ proc[p].posts[1].status # 401

\* C27 (a non-401 outcome leaves credentials untouched): when the first POST
\* is answered with anything but 401, createEventDirect makes no
\* clearTokenCache, no provider discard and no further getAuthToken, and the
\* cache entry stays what it was when the token was obtained.
C27_Non401LeavesCredentials ==
    /\ [](\A p \in Procs :
            LET r == proc[p] IN
            AfterNon401(p) =>
                /\ r.ceTrace = <<"getAuthToken", "POST">>
                /\ Len(r.posts) = 1
                /\ r.ret = "first"
                /\ Finished(r)
                /\ storage[TOKEN_CACHE_KEY].token = r.posts[1].tok
                /\ ReadFresh(r) => storage[TOKEN_CACHE_KEY] = r.cachedData)
    /\ [][\A p \in Procs :
            (proc[p].pc = "ce_post1" \/ AfterNon401(p)) =>
                /\ storage' = storage
                /\ idCached' = idCached
                /\ nextTok' = nextTok
                /\ lastProbe' = lastProbe
                /\ proc'[p].pc # "idle" => proc'[p].gaTrace = proc[p].gaTrace]_vars

\* The first POST was answered 403 and the caller has the failure; the cache
\* still holds the token that was sent.
C27_Witness ==
    \E p \in Procs :
        LET r == proc[p] IN
        /\ r.op = "createEvent" /\ r.pc = "done"
        /\ Len(r.posts) = 1 /\ r.posts[1].status = 403
        /\ r.posts[1].body = "error_nomsg"
        /\ r.result.st = "rejected"
        /\ storage[TOKEN_CACHE_KEY].token = r.posts[1].tok
        /\ idCached = r.posts[1].tok

\* A step of p that is its cache read completing with a hit.
CacheHitStep(p) ==
    /\ proc[p].pc = "ga_check"
    /\ proc'[p].pc # "ga_check"
    /\ IsFresh(storage[TOKEN_CACHE_KEY], now)

\* C28 (no sliding expiration): a cache hit leaves the stored entry, timestamp
\* included, as it is; a timestamp is only ever set by a storage.set of
\* getAuthToken, to the time of that write; so with a clock that never goes
\* back a token returned from the fast path was written less than MAX_AGE
\* before it is returned.
C28_NoSlidingExpiration ==
    /\ [][\A p \in Procs :
            CacheHitStep(p) =>
                /\ storage' = storage
                /\ proc'[p].gaOut = Resolved(storage[TOKEN_CACHE_KEY].token, Undefined)
                /\ now - storage[TOKEN_CACHE_KEY].timestamp < MAX_AGE
                /\ now - storage[TOKEN_CACHE_KEY].timestamp >= 0]_vars
    /\ [][(/\ storage'[TOKEN_CACHE_KEY] # storage[TOKEN_CACHE_KEY]
           /\ storage'[TOKEN_CACHE_KEY] # NoEntry) =>
                /\ \E p \in Procs : StoreStep(p)
                /\ storage'[TOKEN_CACHE_KEY].timestamp = now]_vars
    /\ [][now' >= now]_vars
    /\ [](storage[TOKEN_CACHE_KEY] # NoEntry =>
                storage[TOKEN_CACHE_KEY].timestamp <= now)

\* A token written at time 0 is returned from the cache one clock step later,
\* and the entry still carries time 0.
C28_Witness ==
    \E p \in Procs :
        LET r == proc[p] IN
        /\ r.op = "getAuthToken" /\ r.pc = "done"
        /\ r.gaTrace = <<"storage.get">>
        /\ r.nowL = TickMs
        /\ r.cachedData.timestamp = 0
        /\ r.result = Resolved(r.cachedData.token, Undefined)
        /\ storage[TOKEN_CACHE_KEY] = r.cachedData
        /\ now = TickMs

\* C29 (probe transport failure counts as invalid): a validation request that
\* fails in transport makes validateToken yield false; getAuthToken then
\* discards the token from the provider's cache and retries once when
\* interactive, or fails with "Token invalid" when silent. getAuthToken never
\* rejects with the transport error.
C29_ProbeTransportFailure ==
    \A p \in Procs :
        LET r == proc[p]
            tr == SinceCheck(r.gaTrace)
        IN  /\ Len(r.probes) = Count(r.gaTrace, "validateToken")
            /\ r.probes # <<>> => (r.isValid <=> r.probes[Len(r.probes)] = "ok")
            /\ (r.probes # <<>> /\ r.probes[1] = "neterr") =>
                    /\ Len(tr) = 2 => r.pc = "ga_remove"
                    /\ Len(tr) >= 3 => tr[3] = "removeCachedAuthToken"
                    /\ (~r.interactive /\ Len(tr) >= 3) =>
                            /\ tr = <<AcquireEvent(FALSE), "validateToken",
                                      "removeCachedAuthToken">>
                            /\ r.gaOut = Rejected(ErrorObj("Token invalid"))
                    /\ (r.interactive /\ Len(tr) >= 3) =>
                            /\ r.gaOut.st = "pending" => r.pc \in {"ga_getToken2", "ga_validate2", "ga_store"}
                            /\ Len(tr) >= 4 => tr[4] = AcquireEvent(TRUE)
                            /\ Acquisitions(tr) <= 2
                            /\ Count(tr, "validateToken") <= 2
            /\ (Len(r.probes) = 2 /\ r.probes[2] = "neterr") =>
                    r.gaOut = Rejected(ErrorObj("Token still invalid after refresh"))
            /\ (r.gaOut.st = "rejected" /\ r.hasIdentity) =>
                    r.gaOut.err \in {ErrorObj("Token invalid"),
                                     ErrorObj("Token still invalid after refresh"),
                                     StringErr("No token received"),
                                     StringErr("The user did not approve access.")}

\* The probe of a silent getAuthToken failed in transport; the token was
\* dropped from the provider's cache and the call failed with "Token invalid".
C29_Witness ==
    \E p \in Procs :
        LET r == proc[p] IN
        /\ r.op = "getAuthToken" /\ r.pc = "done" /\ ~r.interactive
        /\ r.probes = <<"neterr">>
        /\ Has(r.gaTrace, "removeCachedAuthToken")
        /\ r.gaOut = Rejected(ErrorObj("Token invalid"))
        /\ idCached = NoToken

\* C25 (a rejected token is never reused under concurrency): whatever the
\* interleaving of concurrent createEventDirect invocations, the token an
\* invocation sends on its retry POST is not the token for which it has just
\* been answered 401.
C25_RejectedTokenNotReusedConcurrently ==
    \A p \in Procs :
        Len(proc[p].posts) = 2 => proc[p].posts[2].tok # proc[p].posts[1].tok

\* One of the batch's createEvent promises has rejected.
SomeRejected ==
    \E p \in Procs : proc[p].pc = "done" /\ proc[p].result.st = "rejected"

\* C30 (batch approval): handleApprove starts one createEvent per event before
\* it awaits anything; the status becomes "success" only when every promise
\* has resolved, and "error" in the very step after one has rejected; that
\* step touches no submission, and while a batch is shown no submission loses
\* a request it has made.
C30_BatchApproval ==
    /\ [](overlayStatus = "success" =>
            \A p \in Procs : proc[p].pc = "done" /\ proc[p].result.st = "resolved")
    /\ [](overlayStatus = "error" => SomeRejected)
    /\ [][(overlayStatus = "review" /\ overlayStatus' # "review") =>
            /\ overlayStatus' = "creating"
            /\ \A p \in Procs :
                    /\ proc'[p].op = "createEvent"
                    /\ proc'[p].pc = "ce_sendMessage"]_vars
    /\ [][(overlayStatus = "creating" /\ SomeRejected) =>
            overlayStatus' = "error"]_vars
    /\ [][(overlayStatus = "creating" /\ overlayStatus' # "creating") =>
            proc' = proc]_vars
    /\ [][\A p \in Procs :
            (overlayStatus \in {"creating", "error"} /\ overlayStatus' # "idle") =>
                /\ IsPrefix(proc[p].posts, proc'[p].posts)
                /\ proc[p].pc # "done" => proc'[p].pc # "idle"]_vars

\* The status is "error" because one submission was rejected, while the other
\* has created its event and has yet to report it.
C30_Witness ==
    \E p, q \in Procs :
        /\ overlayStatus = "error"
        /\ proc[p].pc = "done" /\ proc[p].result.st = "rejected"
        /\ proc[q].pc = "ce_respond"
        /\ proc[q].ceOut = Resolved(NoToken, "abc")
        /\ proc[q].posts[1].status = 200

====
